---- MODULE Spec2Model ----
(***************************************************************************)
(* Model of EnhancedPythonMentor (src/main.py): a question classifier, a   *)
(* lookup-or-generate responder over an SQLite store, and an interaction   *)
(* log.  Question texts are sequences of one-character strings so that     *)
(* str.lower(), re.search(), the `in` operator and SQL LIKE are computed    *)
(* character by character.  Answer texts are never inspected by the code    *)
(* and are kept as opaque strings.                                          *)
(***************************************************************************)
EXTENDS Integers, Sequences, FiniteSets, TLC

VARIABLES qa_pairs, user_interactions, code_examples, clock, ret

vars == <<qa_pairs, user_interactions, code_examples, clock, ret>>

(***************************************************************************)
(* Bounds of the model.                                                    *)
(***************************************************************************)
\* Rows respond may add to qa_pairs beyond the two seed rows.
MaxAdded == 2
\* Rows record_interaction may add to user_interactions.
MaxInteractions == 1
\* Words per question in the classifier's input set.
MaxWords == 2

(***************************************************************************)
(* Characters and strings.                                                 *)
(***************************************************************************)
UpperCase == <<"A", "B", "C", "D", "E", "F", "G", "H", "I", "J", "K", "L", "M", "N", "O", "P", "Q", "R", "S", "T", "U", "V", "W", "X", "Y", "Z">>
LowerCase == <<"a", "b", "c", "d", "e", "f", "g", "h", "i", "j", "k", "l", "m", "n", "o", "p", "q", "r", "s", "t", "u", "v", "w", "x", "y", "z">>
Digits == <<"0", "1", "2", "3", "4", "5", "6", "7", "8", "9">>

Range(s) == {s[i] : i \in DOMAIN s}

Max(S) == CHOOSE x \in S : \A y \in S : x >= y

Min(S) == CHOOSE x \in S : \A y \in S : x <= y

\* str.lower() on one character (ASCII).
LowerOf == [c \in Range(UpperCase) |->
               LowerCase[CHOOSE i \in DOMAIN UpperCase : UpperCase[i] = c]]

LowerChar(c) == IF c \in DOMAIN LowerOf THEN LowerOf[c] ELSE c

\* str.lower()
lower(s) == [i \in DOMAIN s |-> LowerChar(s[i])]

\* The regular-expression class \w.
WordChars == Range(UpperCase) \cup Range(LowerCase) \cup Range(Digits) \cup {"_"}

IsWordChar(c) == c \in WordChars

\* The literal w occurs in s starting at position i.
LitAt(s, i, w) ==
    /\ i >= 1
    /\ i + Len(w) - 1 <= Len(s)
    /\ \A k \in 1..Len(w) : s[i + k - 1] = w[k]

\* Python's `w in s` on strings.
Contains(s, w) == \E i \in 1..(Len(s) + 1) : LitAt(s, i, w)

\* The regular-expression assertion \b at the gap before position k of s.
WordAt(s, k) == k \in 1..Len(s) /\ IsWordChar(s[k])
Boundary(s, k) == WordAt(s, k - 1) # WordAt(s, k)

(***************************************************************************)
(* The words of the classifier.                                            *)
(***************************************************************************)
w_venv == <<"v", "e", "n", "v">>
w_virtual_environment == <<"v", "i", "r", "t", "u", "a", "l", " ", "e", "n", "v", "i", "r", "o", "n", "m", "e", "n", "t">>
w_django == <<"d", "j", "a", "n", "g", "o">>
w_flask == <<"f", "l", "a", "s", "k">>
w_api == <<"a", "p", "i">>
w_deployment == <<"d", "e", "p", "l", "o", "y", "m", "e", "n", "t">>
w_docker == <<"d", "o", "c", "k", "e", "r">>
w_test == <<"t", "e", "s", "t">>
w_ing == <<"i", "n", "g">>
w_debug == <<"d", "e", "b", "u", "g">>
w_ging == <<"g", "i", "n", "g">>
w_advanced == <<"a", "d", "v", "a", "n", "c", "e", "d">>
w_complex == <<"c", "o", "m", "p", "l", "e", "x">>
w_architecture == <<"a", "r", "c", "h", "i", "t", "e", "c", "t", "u", "r", "e">>
w_deploy == <<"d", "e", "p", "l", "o", "y">>
w_optimize == <<"o", "p", "t", "i", "m", "i", "z", "e">>
w_secure == <<"s", "e", "c", "u", "r", "e">>

(***************************************************************************)
(* concept_patterns: an insertion-ordered dict of regular expressions.     *)
(* A pattern is a set of alternatives; an alternative is a literal with an  *)
(* optional suffix, each end optionally anchored by \b.                     *)
(***************************************************************************)
Word(w) == [lb |-> TRUE, lit |-> w, opt |-> <<>>, rb |-> TRUE]
WordOpt(w, o) == [lb |-> TRUE, lit |-> w, opt |-> o, rb |-> TRUE]
Plain(w) == [lb |-> FALSE, lit |-> w, opt |-> <<>>, rb |-> FALSE]

concept_patterns ==
    << [alts |-> {Word(w_venv), Plain(w_virtual_environment)}, cat |-> "virtual_environment"],
       [alts |-> {Word(w_django)}, cat |-> "django_framework"],
       [alts |-> {Word(w_flask)}, cat |-> "flask_framework"],
       [alts |-> {Word(w_api)}, cat |-> "api_development"],
       [alts |-> {Word(w_deployment)}, cat |-> "deployment"],
       [alts |-> {Word(w_docker)}, cat |-> "docker"],
       [alts |-> {WordOpt(w_test, w_ing)}, cat |-> "testing"],
       [alts |-> {WordOpt(w_debug, w_ging)}, cat |-> "debugging"] >>

\* One alternative matches s with the match starting at position i.
MatchAlt(alt, s, i) ==
    LET e1 == i + Len(alt.lit)
        e2 == e1 + Len(alt.opt)
    IN  /\ alt.lb => Boundary(s, i)
        /\ LitAt(s, i, alt.lit)
        /\ \/ LitAt(s, e1, alt.opt) /\ (alt.rb => Boundary(s, e2))
           \/ alt.rb => Boundary(s, e1)

\* re.search(pattern, s) is not None
re_search(pattern, s) ==
    \E alt \in pattern.alts : \E i \in 1..(Len(s) + 1) : MatchAlt(alt, s, i)

advanced_words == {w_advanced, w_complex, w_architecture}
intermediate_words == {w_deploy, w_optimize, w_secure}

\* analyze_question with the last matching pattern deciding the category.
analyze_question_last_match(question) ==
    LET question_lower == lower(question)
        hits == {i \in DOMAIN concept_patterns :
                    re_search(concept_patterns[i], question_lower)}
        category == IF hits = {} THEN "general" ELSE concept_patterns[Max(hits)].cat
        difficulty ==
            IF \E word \in advanced_words : Contains(question_lower, word)
            THEN "advanced"
            ELSE IF \E word \in intermediate_words : Contains(question_lower, word)
                 THEN "intermediate"
                 ELSE "beginner"
    IN  [category |-> category, difficulty |-> difficulty]

\* analyze_question with the intermediate words tested before the advanced ones.
analyze_question_intermediate_first(question) ==
    LET question_lower == lower(question)
        hits == {i \in DOMAIN concept_patterns :
                    re_search(concept_patterns[i], question_lower)}
        category == IF hits = {} THEN "general" ELSE concept_patterns[Min(hits)].cat
        difficulty ==
            IF \E word \in intermediate_words : Contains(question_lower, word)
            THEN "intermediate"
            ELSE IF \E word \in advanced_words : Contains(question_lower, word)
                 THEN "advanced"
                 ELSE "beginner"
    IN  [category |-> category, difficulty |-> difficulty]

\* analyze_question: first matching pattern decides the category, keyword
\* sets decide the difficulty.
analyze_question(question) ==
    LET question_lower == lower(question)
        hits == {i \in DOMAIN concept_patterns :
                    re_search(concept_patterns[i], question_lower)}
        category == IF hits = {} THEN "general" ELSE concept_patterns[Min(hits)].cat
        difficulty ==
            IF \E word \in advanced_words : Contains(question_lower, word)
            THEN "advanced"
            ELSE IF \E word \in intermediate_words : Contains(question_lower, word)
                 THEN "intermediate"
                 ELSE "beginner"
    IN  [category |-> category, difficulty |-> difficulty]

(***************************************************************************)
(* Questions put to the responder.                                         *)
(***************************************************************************)
q_deploy_app == <<"H", "o", "w", " ", "d", "o", " ", "I", " ", "d", "e", "p", "l", "o", "y", " ", "m", "y", " ", "P", "y", "t", "h", "o", "n", " ", "a", "p", "p", "l", "i", "c", "a", "t", "i", "o", "n", "?">>
q_start_project == <<"H", "o", "w", " ", "d", "o", " ", "I", " ", "s", "t", "a", "r", "t", " ", "a", " ", "n", "e", "w", " ", "P", "y", "t", "h", "o", "n", " ", "p", "r", "o", "j", "e", "c", "t", "?">>
q_deployment == <<"d", "e", "p", "l", "o", "y", "m", "e", "n", "t">>
q_test_docker_deployment == <<"T", "e", "s", "t", " ", "D", "o", "c", "k", "e", "r", " ", "d", "e", "p", "l", "o", "y", "m", "e", "n", "t">>
q_wildcard == <<"d", "_", "c", "k", "e", "r", " ", "D", "E", "P", "L", "O", "Y", "M", "E", "N", "T">>
q_word_deploy == <<"d", "e", "p", "l", "o", "y">>

\* The question of the example run at the end of main.py.
q_flask_deployment == <<"H", "o", "w", " ", "d", "o", " ", "I", " ", "s", "t", "r", "u", "c", "t", "u", "r", "e", " ", "a", " ", "F", "l", "a", "s", "k", " ", "p", "r", "o", "j", "e", "c", "t", " ", "f", "o", "r", " ", "d", "e", "p", "l", "o", "y", "m", "e", "n", "t", "?">>

Questions ==
    { q_deploy_app,
      q_start_project,
      q_deployment,
      q_test_docker_deployment,
      q_wildcard,
      q_word_deploy }

(***************************************************************************)
(* Inputs of the classifier: phrases of up to MaxWords vocabulary words,   *)
(* and the questions above.                                                *)
(***************************************************************************)
Vocabulary ==
    { <<"v", "e", "n", "v">>,
      <<"v", "i", "r", "t", "u", "a", "l", " ", "e", "n", "v", "i", "r", "o", "n", "m", "e", "n", "t">>,
      <<"d", "j", "a", "n", "g", "o">>,
      <<"f", "l", "a", "s", "k">>,
      <<"a", "p", "i">>,
      <<"d", "e", "p", "l", "o", "y", "m", "e", "n", "t">>,
      <<"d", "o", "c", "k", "e", "r">>,
      <<"t", "e", "s", "t">>,
      <<"t", "e", "s", "t", "i", "n", "g">>,
      <<"d", "e", "b", "u", "g">>,
      <<"d", "e", "b", "u", "g", "g", "i", "n", "g">>,
      <<"a", "d", "v", "a", "n", "c", "e", "d">>,
      <<"c", "o", "m", "p", "l", "e", "x">>,
      <<"a", "r", "c", "h", "i", "t", "e", "c", "t", "u", "r", "e">>,
      <<"d", "e", "p", "l", "o", "y">>,
      <<"o", "p", "t", "i", "m", "i", "z", "e">>,
      <<"s", "e", "c", "u", "r", "e">>,
      <<"A", "R", "C", "H", "I", "T", "E", "C", "T", "U", "R", "E">>,
      <<"d", "e", "p", "l", "o", "y", "m", "e", "n", "t", "s">>,
      <<"a", "p", "i", "_", "d", "e", "p", "l", "o", "y", "m", "e", "n", "t">>,
      <<"p", "y", "t", "h", "o", "n">> }

Space == <<" ">>

RECURSIVE Phrases(_)
Phrases(n) ==
    IF n = 0 THEN {<<>>}
    ELSE LET shorter == Phrases(n - 1)
         IN  shorter \cup Vocabulary
                \cup {p \o Space \o w : p \in shorter \ {<<>>}, w \in Vocabulary}

ClassifyInputs == Phrases(MaxWords) \cup Questions \cup {q_flask_deployment}

\* The two seeded answers, verbatim.
a_start_project ==
    "Here are the steps to start a new Python project:\n                1. Create a new directory for your project\n                2. Set up a virtual environment\n                3. Initialize git repository\n                4. Create requirements.txt\n                5. Set up basic project structure"
a_deploy_app ==
    "Deployment steps typically include:\n                1. Prepare your application (debug=False, environment variables)\n                2. Choose a hosting platform (Heroku, AWS, DigitalOcean)\n                3. Set up deployment configuration\n                4. Deploy your application\n                5. Monitor for any issues"

\* Texts the language model may produce (tokenizer.decode of model.generate).
GenTexts == {"generated text A", "generated text B"}

\* The language model raising instead of returning.
GenFailure == "<Generator raised>"

\* Arguments given to record_interaction.
RecordQuestions == {q_flask_deployment}
RecordResponses == {"generated text A"}

(***************************************************************************)
(* Storage: three SQLite tables, each a sequence of rows in rowid order.    *)
(***************************************************************************)
\* The INSERT with category and difficulty bound to each other's column.
insert_qa_pair_swapped(pairs, question, answer, category, difficulty, now) ==
    Append(pairs, [id |-> Len(pairs) + 1, question |-> question, answer |-> answer,
                   category |-> difficulty, difficulty |-> category,
                   timestamp |-> now])

\* INSERT OR REPLACE reusing the last rowid.
insert_qa_pair_replace(pairs, question, answer, category, difficulty, now) ==
    LET row == [id |-> Len(pairs), question |-> question, answer |-> answer,
                category |-> category, difficulty |-> difficulty,
                timestamp |-> now]
    IN  IF Len(pairs) = 0 THEN <<row>> ELSE [pairs EXCEPT ![Len(pairs)] = row]

\* INSERT INTO qa_pairs (question, answer, category, difficulty, timestamp)
insert_qa_pair(pairs, question, answer, category, difficulty, now) ==
    Append(pairs, [id |-> Len(pairs) + 1, question |-> question, answer |-> answer,
                   category |-> category, difficulty |-> difficulty,
                   timestamp |-> now])

\* INSERT INTO user_interactions (question, matched_response, helpful, timestamp)
insert_interaction(rows, question, response, helpful, now) ==
    Append(rows, [id |-> Len(rows) + 1, question |-> question,
                  matched_response |-> response, helpful |-> helpful,
                  timestamp |-> now])

basic_qa ==
    << [question |-> q_start_project, answer |-> a_start_project,
        category |-> "project_setup", difficulty |-> "beginner"],
       [question |-> q_deploy_app, answer |-> a_deploy_app,
        category |-> "deployment", difficulty |-> "intermediate"] >>

\* initialize_basic_qa: one INSERT per entry of basic_qa, one commit.
RECURSIVE insert_basic_qa(_, _, _)
insert_basic_qa(pairs, k, now) ==
    IF k > Len(basic_qa) THEN pairs
    ELSE insert_basic_qa(
            insert_qa_pair(pairs, basic_qa[k].question, basic_qa[k].answer,
                           basic_qa[k].category, basic_qa[k].difficulty, now),
            k + 1, now + 1)

initialize_basic_qa(pairs, now) == insert_basic_qa(pairs, 1, now)

\* setup_knowledge_base seeding without the COUNT(*) test.
setup_knowledge_base_always(pairs, now) == initialize_basic_qa(pairs, now)

\* setup_knowledge_base: seed only when SELECT COUNT(*) FROM qa_pairs is 0.
setup_knowledge_base(pairs, now) ==
    IF Len(pairs) = 0 THEN initialize_basic_qa(pairs, now) ELSE pairs

\* SQLite's LIKE: % matches any run of characters, _ any one character,
\* letters compare without regard to case.
RECURSIVE LikeAt(_, _, _, _)
LikeAt(p, i, s, j) ==
    IF i > Len(p) THEN j > Len(s)
    ELSE IF p[i] = "%"
         THEN LikeAt(p, i + 1, s, j) \/ (j <= Len(s) /\ LikeAt(p, i, s, j + 1))
         ELSE /\ j <= Len(s)
              /\ p[i] = "_" \/ LowerChar(p[i]) = LowerChar(s[j])
              /\ LikeAt(p, i + 1, s, j + 1)

sql_like(s, p) == LikeAt(p, 1, s, 1)

\* The bound parameter f'%{question}%'.
like_pattern(question) == <<"%">> \o question \o <<"%">>

\* The LIKE with its operands exchanged: question LIKE '%stored%'.
like_table_reversed ==
    [question \in Questions |->
        [stored \in Questions |-> sql_like(question, like_pattern(stored))]]

\* stored LIKE f'%{question}%', computed once for each pair of questions.
like_table ==
    [question \in Questions |->
        [stored \in Questions |-> sql_like(stored, like_pattern(question))]]

\* analyze_question, computed once for each question.
analysis_table == [question \in Questions |-> analyze_question(question)]

\* The SELECT returning its last matching row (ORDER BY id DESC).
select_answer_last(pairs, category, difficulty, question) ==
    LET rows == {i \in DOMAIN pairs :
                    /\ pairs[i].category = category
                    /\ pairs[i].difficulty = difficulty
                    /\ like_table[question][pairs[i].question]}
    IN  IF rows = {} THEN <<>> ELSE <<pairs[Max(rows)].answer>>

\* SELECT answer FROM qa_pairs WHERE category = ? AND difficulty = ?
\* AND question LIKE ? with f'%{question}%' bound to the last parameter,
\* then fetchone(): the first matching row in rowid order as a one-element
\* tuple, or the empty tuple for None.
select_answer(pairs, category, difficulty, question) ==
    LET rows == {i \in DOMAIN pairs :
                    /\ pairs[i].category = category
                    /\ pairs[i].difficulty = difficulty
                    /\ like_table[question][pairs[i].question]}
    IN  IF rows = {} THEN <<>> ELSE <<pairs[Min(rows)].answer>>

\* The Markdown fence around a code example (with ' for the backquote).
fence_open == "'''python\n"
fence_close == "\n'''\n"

\* get_relevant_code_example: SELECT code, explanation FROM code_examples
\* WHERE concept = ? LIMIT 1, formatted as an f-string (the tuple of its
\* parts); the empty tuple for None.
get_relevant_code_example(examples, concept) ==
    LET rows == {i \in DOMAIN examples : examples[i].concept = concept}
    IN  IF rows = {} THEN <<>>
        ELSE <<fence_open, examples[Min(rows)].code, fence_close,
               examples[Min(rows)].explanation>>

generate_follow_up_questions(category) ==
    CASE category = "virtual_environment" ->
            <<"How do I activate the virtual environment?",
              "Should I include venv in git?">>
      [] category = "deployment" ->
            <<"How do I set up environment variables?",
              "What are the best practices for production deployment?">>
      [] category = "testing" ->
            <<"How do I write unit tests?",
              "What testing framework should I use?">>
      [] OTHER -> <<>>

(***************************************************************************)
(* Calls and their outcomes.  ret is the last call as its caller sees it:   *)
(* the operation, its arguments, whether it returned or raised, the value   *)
(* returned (a one-element tuple, empty when nothing was returned) and the  *)
(* number of times the call ran the language model.                         *)
(***************************************************************************)
Call(op, args, status, result, gen_calls) ==
    [op |-> op, args |-> args, status |-> status, result |-> result,
     gen_calls |-> gen_calls]

Init ==
    /\ qa_pairs = setup_knowledge_base(<<>>, 0)
    /\ user_interactions = <<>>
    /\ code_examples = <<>>
    /\ clock = Len(basic_qa)
    /\ ret = Call("__init__", <<>>, "ok", <<>>, 0)

\* The INSERT placed before the call of the model.
store_new_pair_before_generate(pairs, question, out, analysis, now) ==
    insert_qa_pair(pairs, question, out, analysis.category,
                   analysis.difficulty, now)

\* The qa_pairs table after the lookup missed and the model was run: the
\* INSERT is reached only when model.generate returned.
store_new_pair(pairs, question, out, analysis, now) ==
    IF out = GenFailure THEN pairs
    ELSE insert_qa_pair(pairs, question, out, analysis.category,
                        analysis.difficulty, now)

\* generate_response(question)
generate_response(question) ==
    LET analysis == analysis_table[question]
        existing_answer == select_answer(qa_pairs, analysis.category,
                                         analysis.difficulty, question)
        Result(response) ==
            [answer |-> response,
             code_example |-> get_relevant_code_example(code_examples, analysis.category),
             category |-> analysis.category,
             difficulty |-> analysis.difficulty,
             follow_up_questions |-> generate_follow_up_questions(analysis.category)]
    IN  IF existing_answer # <<>>
        THEN /\ ret' = Call("generate_response", <<question>>, "ok",
                            <<Result(existing_answer[1])>>, 0)
             /\ UNCHANGED <<qa_pairs, user_interactions, code_examples, clock>>
        ELSE \E out \in GenTexts \cup {GenFailure} :
                /\ out # GenFailure => Len(qa_pairs) < Len(basic_qa) + MaxAdded
                /\ qa_pairs' = store_new_pair(qa_pairs, question, out, analysis, clock)
                /\ clock' = clock + (Len(qa_pairs') - Len(qa_pairs))
                /\ ret' = IF out = GenFailure
                          THEN Call("generate_response", <<question>>, "error", <<>>, 1)
                          ELSE Call("generate_response", <<question>>, "ok",
                                    <<Result(out)>>, 1)
                /\ UNCHANGED <<user_interactions, code_examples>>

Respond == \E question \in Questions : generate_response(question)

\* record_interaction(question, response, helpful)
record_interaction(question, response, helpful) ==
    /\ Len(user_interactions) < MaxInteractions
    /\ user_interactions' = insert_interaction(user_interactions, question,
                                               response, helpful, clock)
    /\ clock' = clock + 1
    /\ ret' = Call("record_interaction", <<question, response, helpful>>, "ok", <<>>, 0)
    /\ UNCHANGED <<qa_pairs, code_examples>>

RecordInteraction ==
    \E question \in RecordQuestions, response \in RecordResponses,
       helpful \in BOOLEAN :
        record_interaction(question, response, helpful)

\* A new process on the persisted store: __init__ runs setup_knowledge_base.
Restart ==
    /\ qa_pairs' = setup_knowledge_base(qa_pairs, clock)
    /\ clock' = clock + (Len(qa_pairs') - Len(qa_pairs))
    /\ ret' = Call("__init__", <<>>, "ok", <<>>, 0)
    /\ UNCHANGED <<user_interactions, code_examples>>

Next == Respond \/ RecordInteraction \/ Restart

Spec == Init /\ [][Next]_vars

(***************************************************************************)
(* The classifier alone: analyze_question applied to each input.           *)
(***************************************************************************)
InitClassify ==
    /\ qa_pairs = setup_knowledge_base(<<>>, 0)
    /\ user_interactions = <<>>
    /\ code_examples = <<>>
    /\ clock = Len(basic_qa)
    /\ \E question \in ClassifyInputs :
          ret = Call("analyze_question", <<question>>, "called", <<>>, 0)

AnalyzeQuestion ==
    /\ ret.op = "analyze_question"
    /\ ret.status = "called"
    /\ ret' = Call("analyze_question", ret.args, "ok",
                   <<analyze_question(ret.args[1])>>, 0)
    /\ UNCHANGED <<qa_pairs, user_interactions, code_examples, clock>>

NextClassify == AnalyzeQuestion

SpecClassify == InitClassify /\ [][NextClassify]_vars

(***************************************************************************)
(* Properties.                                                             *)
(***************************************************************************)
\* The store right after the initializer ran on an empty database.
FreshStore == setup_knowledge_base(<<>>, 0)

IsDeploymentIntermediate(r) ==
    r.category = "deployment" /\ r.difficulty = "intermediate"

\* The rows the lookup of generate_response(question) selects: same
\* category and difficulty as the question's analysis, question LIKE
\* '%question%'.
Matching(pairs, question) ==
    {i \in DOMAIN pairs :
        /\ pairs[i].category = analysis_table[question].category
        /\ pairs[i].difficulty = analysis_table[question].difficulty
        /\ like_table[question][pairs[i].question]}

\* The answer of the first such row, as a one-element tuple.
CachedAnswer(pairs, question) ==
    LET rows == Matching(pairs, question)
    IN  IF rows = {} THEN <<>> ELSE <<pairs[Min(rows)].answer>>

\* inner occurs in outer as a substring, for each pair of questions.
contains_table ==
    [inner \in Questions |-> [outer \in Questions |-> Contains(outer, inner)]]

IsPrefix(s, t) == Len(s) <= Len(t) /\ SubSeq(t, 1, Len(s)) = s

\* C1: on a fresh seeded store, generate_response("How do I deploy my
\* Python application?") returns category deployment, difficulty
\* intermediate and the seeded deployment answer, runs the model zero times
\* and adds no row to qa_pairs.
C1_EndToEnd ==
    [][ (qa_pairs = FreshStore /\ ret'.op = "generate_response"
            /\ ret'.args = <<q_deploy_app>>)
        => /\ ret'.status = "ok"
           /\ ret'.result[1].category = "deployment"
           /\ ret'.result[1].difficulty = "intermediate"
           /\ ret'.result[1].answer = a_deploy_app
           /\ ret'.gen_calls = 0
           /\ qa_pairs' = qa_pairs ]_vars

\* A question matches the rule of concept_patterns that yields cat.
MatchesRule(question, cat) ==
    \E k \in DOMAIN concept_patterns :
        /\ concept_patterns[k].cat = cat
        /\ re_search(concept_patterns[k], lower(question))

EarlierThanDeployment ==
    {"virtual_environment", "django_framework", "flask_framework", "api_development"}

LaterThanDeployment == {"docker", "testing", "debugging"}

Analyzed == ret.op = "analyze_question" /\ ret.status = "ok"

\* C2 as stated: every question matching the deployment rule is classified
\* deployment, whatever other rule it matches.
C2_DeploymentAlways ==
    (Analyzed /\ MatchesRule(ret.args[1], "deployment"))
        => ret.result[1].category = "deployment"

\* C2: every question matching the deployment rule and none of the rules
\* listed before it (venv/virtual environment, django, flask, api) is
\* classified deployment, also when it matches a rule listed after it
\* (docker, test(ing), debug(ging)).
C2_DeploymentUnlessEarlierRule ==
    (Analyzed /\ MatchesRule(ret.args[1], "deployment")
        /\ \A cat \in EarlierThanDeployment : ~MatchesRule(ret.args[1], cat))
        => ret.result[1].category = "deployment"

C2_Witness ==
    /\ Analyzed
    /\ MatchesRule(ret.args[1], "deployment")
    /\ \E cat \in LaterThanDeployment : MatchesRule(ret.args[1], cat)
    /\ ret.result[1].category = "deployment"

\* C3 as stated: when a stored pair is deployment/intermediate and the input
\* contains its question as a substring, generate_response returns that
\* pair's answer without running the model.
C3_InputContainsStored ==
    [][ ret'.op = "generate_response"
        => \A i \in DOMAIN qa_pairs :
              (IsDeploymentIntermediate(qa_pairs[i])
                  /\ contains_table[qa_pairs[i].question][ret'.args[1]])
              => /\ ret'.status = "ok"
                 /\ ret'.result[1].answer = qa_pairs[i].answer
                 /\ ret'.gen_calls = 0 ]_vars

\* C3: when a stored pair is deployment/intermediate and the input is itself
\* classified deployment/intermediate and is a substring of that pair's
\* question, generate_response runs the model zero times, adds no row and
\* returns the answer of the earliest-stored deployment/intermediate pair
\* whose question matches the input under LIKE: that pair, or one stored
\* before it.
C3_StoredContainsInput ==
    [][ ret'.op = "generate_response"
        => \A i \in DOMAIN qa_pairs :
              (IsDeploymentIntermediate(qa_pairs[i])
                  /\ IsDeploymentIntermediate(analysis_table[ret'.args[1]])
                  /\ contains_table[ret'.args[1]][qa_pairs[i].question])
              => /\ ret'.status = "ok"
                 /\ ret'.gen_calls = 0
                 /\ qa_pairs' = qa_pairs
                 /\ \E j \in 1..i :
                       /\ IsDeploymentIntermediate(qa_pairs[j])
                       /\ like_table[ret'.args[1]][qa_pairs[j].question]
                       /\ ret'.result[1].answer = qa_pairs[j].answer
                       /\ \A k \in 1..(j - 1) :
                             ~(IsDeploymentIntermediate(qa_pairs[k])
                               /\ like_table[ret'.args[1]][qa_pairs[k].question]) ]_vars

\* The stored question is strictly longer than the input it answers.
C3_Witness ==
    /\ ret.op = "generate_response"
    /\ ret.args = <<q_deployment>>
    /\ ret.status = "ok"
    /\ ret.gen_calls = 0
    /\ \E i \in DOMAIN qa_pairs :
          /\ qa_pairs[i].question = q_test_docker_deployment
          /\ IsDeploymentIntermediate(qa_pairs[i])
          /\ ret.result[1].answer = qa_pairs[i].answer

\* C4: a generate_response whose lookup selects no row runs the model once
\* and, when the model returns, appends exactly one row holding the input,
\* the generated text returned to the caller and the input's category and
\* difficulty; one whose lookup selects a row runs the model zero times and
\* adds no row.
C4_LookupOrGenerate ==
    [][ ret'.op = "generate_response"
        => IF Matching(qa_pairs, ret'.args[1]) = {}
           THEN /\ ret'.gen_calls = 1
                /\ ret'.status = "ok"
                   => /\ Len(qa_pairs') = Len(qa_pairs) + 1
                      /\ IsPrefix(qa_pairs, qa_pairs')
                      /\ ret'.result[1].answer \in GenTexts
                      /\ qa_pairs'[Len(qa_pairs')].question = ret'.args[1]
                      /\ qa_pairs'[Len(qa_pairs')].answer = ret'.result[1].answer
                      /\ qa_pairs'[Len(qa_pairs')].category
                            = analysis_table[ret'.args[1]].category
                      /\ qa_pairs'[Len(qa_pairs')].difficulty
                            = analysis_table[ret'.args[1]].difficulty
                      /\ ret'.result[1].category = analysis_table[ret'.args[1]].category
                      /\ ret'.result[1].difficulty
                            = analysis_table[ret'.args[1]].difficulty
           ELSE /\ ret'.status = "ok"
                /\ ret'.gen_calls = 0
                /\ qa_pairs' = qa_pairs ]_vars

C4_Witness ==
    /\ ret.op = "generate_response"
    /\ ret.status = "ok"
    /\ ret.gen_calls = 1
    /\ qa_pairs[Len(qa_pairs)].question = ret.args[1]
    /\ qa_pairs[Len(qa_pairs)].answer = ret.result[1].answer
    /\ Len(qa_pairs) > Len(basic_qa)

Difficulties == {"beginner", "intermediate", "advanced"}

ClassifierCategories ==
    {concept_patterns[k].cat : k \in DOMAIN concept_patterns} \cup {"general"}

FollowUpKeys == {"virtual_environment", "deployment", "testing"}

\* C5: every stored pair has a difficulty among beginner, intermediate,
\* advanced and a category the classifier can return or the follow-up table
\* is keyed by.
C5_Enumerations ==
    \A i \in DOMAIN qa_pairs :
        /\ qa_pairs[i].difficulty \in Difficulties
        /\ qa_pairs[i].category \in ClassifierCategories \cup FollowUpKeys

HasAny(question, words) == \E word \in words : Contains(lower(question), word)

\* C7 as stated: advanced or architecture gives advanced; otherwise deploy,
\* optimize or secure gives intermediate; otherwise beginner.
C7_TwoAdvancedWords ==
    Analyzed
    => ret.result[1].difficulty =
          IF HasAny(ret.args[1], {w_advanced, w_architecture}) THEN "advanced"
          ELSE IF HasAny(ret.args[1], {w_deploy, w_optimize, w_secure})
               THEN "intermediate"
               ELSE "beginner"

\* C7: a question containing advanced, complex or architecture in any
\* letter case is advanced, whatever its category and whatever else it
\* contains; otherwise one containing deploy, optimize or secure is
\* intermediate; otherwise it is beginner.
C7_Difficulty ==
    Analyzed
    => ret.result[1].difficulty =
          IF HasAny(ret.args[1], {w_advanced, w_complex, w_architecture})
          THEN "advanced"
          ELSE IF HasAny(ret.args[1], {w_deploy, w_optimize, w_secure})
               THEN "intermediate"
               ELSE "beginner"

\* An upper-case ARCHITECTURE next to an intermediate word.
C7_Witness ==
    /\ Analyzed
    /\ Contains(ret.args[1], <<"A", "R", "C", "H">>)
    /\ HasAny(ret.args[1], {w_secure})
    /\ ret.result[1].difficulty = "advanced"

\* C8: a generate_response in which the model raised returns nothing, ran
\* the model once, and leaves all three tables as they were, so the lookup
\* for its question still selects no row; the generate_response of the same
\* question that follows it runs the model again.
C8_GeneratorFailure ==
    [][ /\ (ret'.op = "generate_response" /\ ret'.status = "error")
           => /\ ret'.result = <<>>
              /\ ret'.gen_calls = 1
              /\ qa_pairs' = qa_pairs
              /\ user_interactions' = user_interactions
              /\ code_examples' = code_examples
              /\ Matching(qa_pairs', ret'.args[1]) = {}
        /\ (ret.op = "generate_response" /\ ret.status = "error"
               /\ ret'.op = "generate_response" /\ ret'.args = ret.args)
           => ret'.gen_calls = 1 ]_vars

C8_Witness ==
    /\ ret.op = "generate_response"
    /\ ret.status = "error"
    /\ Len(qa_pairs) > Len(basic_qa)

\* C9, stated inductively over the store, which is where a given answer is
\* remembered: a completed generate_response(q) leaves its answer as the
\* cached answer of q; a step never changes the cached answer of any
\* question; and a generate_response(q) that finds a cached answer returns
\* it, runs the model zero times and adds no row.
C9_StableAnswers ==
    [][ /\ qa_pairs' # qa_pairs
           => \A q \in Questions :
                 CachedAnswer(qa_pairs, q) # <<>>
                 => CachedAnswer(qa_pairs', q) = CachedAnswer(qa_pairs, q)
        /\ (ret'.op = "generate_response" /\ ret'.status = "ok")
           => /\ CachedAnswer(qa_pairs', ret'.args[1]) = <<ret'.result[1].answer>>
              /\ CachedAnswer(qa_pairs, ret'.args[1]) # <<>>
                 => /\ ret'.result[1].answer = CachedAnswer(qa_pairs, ret'.args[1])[1]
                    /\ ret'.gen_calls = 0
                    /\ qa_pairs' = qa_pairs ]_vars

\* The answer first given for q_deployment is returned again although a
\* pair stored later also matches q_deployment and holds another answer.
C9_Witness ==
    /\ ret.op = "generate_response"
    /\ ret.args = <<q_deployment>>
    /\ ret.gen_calls = 0
    /\ \E i, j \in DOMAIN qa_pairs :
          /\ i < j
          /\ qa_pairs[i].question = q_deployment
          /\ j \in Matching(qa_pairs, q_deployment)
          /\ qa_pairs[j].answer # qa_pairs[i].answer
          /\ ret.result[1].answer = qa_pairs[i].answer

SameQA(row, qa) ==
    /\ row.question = qa.question
    /\ row.answer = qa.answer
    /\ row.category = qa.category
    /\ row.difficulty = qa.difficulty

\* C10: the first start leaves exactly the two seed pairs; every state
\* holds each seed pair exactly once; a later start inserts nothing.
C10_SeedOnlyWhenEmpty ==
    /\ Len(qa_pairs) = Len(basic_qa)
    /\ \A k \in DOMAIN basic_qa : SameQA(qa_pairs[k], basic_qa[k])
    /\ [](\A k \in DOMAIN basic_qa :
             Cardinality({i \in DOMAIN qa_pairs : SameQA(qa_pairs[i], basic_qa[k])}) = 1)
    /\ [][ret'.op = "__init__" => qa_pairs' = qa_pairs]_vars

\* A start on a store that already holds an answer to a seed question.
C10_Witness ==
    /\ ret.op = "__init__"
    /\ \E i \in DOMAIN qa_pairs :
          /\ i > Len(basic_qa)
          /\ qa_pairs[i].question = q_deploy_app

====
